---- MODULE Spec2Model ----
(***************************************************************************)
(* A model of banks_project_with_exceptions.py: the five pipeline          *)
(* functions (extract, transform, load_to_csv, load_to_db, run_query) as   *)
(* operators over explicit values, and the __main__ block as a state       *)
(* machine that sequences them.                                            *)
(*                                                                         *)
(* Conventions                                                             *)
(*  - A DataFrame is a record [absent, cols, data]: cols is the sequence   *)
(*    of column names, data[j] the sequence of cells of column j.  None is *)
(*    the record with absent = TRUE.                                       *)
(*  - A cell is [t |-> "num", v |-> n] (n in hundredths, so 150 is 1.50)   *)
(*    or [t |-> "txt", v |-> n] (text number n).  Rates are in hundredths, *)
(*    so a product is in ten-thousandths and round(x, 2) brings it back to *)
(*    hundredths, ties going to the even neighbour.                        *)
(*  - An exception is a record [type, msg, cause]; a function returns a    *)
(*    record holding the exception it raised (NoExc on a normal return),   *)
(*    the messages it passed to log_progress, and its effects.             *)
(*  - log_progress is modelled by the message it is given: log is the      *)
(*    sequence of messages handed to it (the lines it appends to the log   *)
(*    file when the file can be written).                                  *)
(***************************************************************************)
EXTENDS Integers, Sequences, FiniteSets, TLC

VARIABLES
    pc,       \* __main__: the stage about to run, or "Done" / "Failed"
    trace,    \* __main__: the stages executed so far, with their outcome
    log,      \* the messages passed to log_progress, in order
    df,       \* the caller's DataFrame object (mutated in place by transform)
    conn,     \* the sqlite3 connection: [opens, closes, commits, rollbacks]
    table,    \* the database table Largest_banks
    file,     \* the output CSV file
    cursors,  \* the cursors created by run_query, each with its close count
    last,     \* the last function call: its name, inputs and result
    calls     \* number of calls made so far

vars == <<pc, trace, log, df, conn, table, file, cursors, last, calls>>

----------------------------------------------------------------------------
(* Bounds of the model *)

MaxRows == 2
MaxDocLen == 3
MaxCalls == 2

----------------------------------------------------------------------------
(* Values *)

Range(s) == {s[i] : i \in DOMAIN s}

Num(n) == [t |-> "num", v |-> n]
Txt(n) == [t |-> "txt", v |-> n]

NoExc == [type |-> "none", msg |-> "", cause |-> "none"]
Exc(type, msg, cause) == [type |-> type, msg |-> msg, cause |-> cause]

\* A message passed to log_progress: the fixed text of the f-string and the
\* value formatted into it.
L(msg, arg) == [msg |-> msg, arg |-> arg]

\* str(e) as an f-string renders it: KeyError shows the repr of its argument.
Str(e) == IF e.type = "KeyError" THEN "'" \o e.msg \o "'" ELSE e.msg

NoneDF == [absent |-> TRUE, cols |-> <<>>, data |-> <<>>]
Frame(cols, data) == [absent |-> FALSE, cols |-> cols, data |-> data]

NRows(d) == IF Len(d.cols) = 0 THEN 0 ELSE Len(d.data[1])

\* DataFrame.empty: any axis of length 0.
IsEmpty(d) == Len(d.cols) = 0 \/ NRows(d) = 0

\* df is None or df.empty
NoneOnly(d) == d.absent
NoneOrEmpty(d) == d.absent \/ IsEmpty(d)

HasColumn(d, name) == name \in Range(d.cols)

ColIndex(d, name) ==
    CHOOSE j \in DOMAIN d.cols :
        d.cols[j] = name /\ \A k \in DOMAIN d.cols : d.cols[k] = name => j <= k

Column(d, name) == d.data[ColIndex(d, name)]

\* df[name] = vals: an existing column is overwritten where it stands, a new
\* one is appended after the existing columns.
SetColumnAppending(d, name, vals) ==
    [d EXCEPT !.cols = Append(d.cols, name), !.data = Append(d.data, vals)]
SetColumn(d, name, vals) ==
    IF HasColumn(d, name)
    THEN [d EXCEPT !.data[ColIndex(d, name)] = vals]
    ELSE [d EXCEPT !.cols = Append(d.cols, name), !.data = Append(d.data, vals)]

----------------------------------------------------------------------------
(* transform *)

MCAP == "Market cap (US$ billion)"

currencies == <<"GBP", "EUR", "INR", "PKR">>

DerivedName(currency) == "MC_" \o currency \o "_Billion"

\* round(x, 2) of a non-negative product p given in ten-thousandths: the
\* nearest hundredth, a tie going to the even one.
Round2Trunc(p) == p \div 100
Round2(p) ==
    LET q == p \div 100
        r == p % 100
    IN  IF r > 50 THEN q + 1
        ELSE IF r < 50 THEN q
        ELSE IF q % 2 = 0 THEN q ELSE q + 1

\* Series * rate, then round(.., 2).  A text cell times a float raises TypeError.
CanMultiply(col) == \A k \in DOMAIN col : col[k].t = "num"
Converted(col, rate) == [k \in DOMAIN col |-> Num(Round2(col[k].v * rate))]

\* The exchange-rate file as read by pd.read_csv(..).to_dict()['Rate']:
\* [load, rates], rates a function from the currency codes it lists.
MsgRateMissing(currency) ==
    "Exchange rate for " \o currency \o " is missing in the exchange rate file."

\* The for loop of transform from currency number i on: the frame as the loop
\* leaves it, the exception that ended it (NoExc when it ran through) and the
\* messages it logged.
RECURSIVE AddColumns(_, _, _)
AddColumns(d, rates, i) ==
    IF i > Len(currencies)
    THEN [exc |-> NoExc, df |-> d, logs |-> <<>>]
    ELSE LET currency == currencies[i] IN
         IF currency \notin DOMAIN rates
         THEN [exc  |-> Exc("KeyError", MsgRateMissing(currency), "none"),
               df   |-> d,
               logs |-> <<L("Exchange rate for {currency} not found in the CSV file.",
                            currency)>>]
         ELSE IF ~CanMultiply(Column(d, MCAP))
         THEN [exc  |-> Exc("TypeError",
                            "can't multiply sequence by non-int of type 'float'",
                            "none"),
               df   |-> d,
               logs |-> <<>>]
         ELSE AddColumns(
                  SetColumn(d, DerivedName(currency),
                            Converted(Column(d, MCAP), rates[currency])),
                  rates, i + 1)

\* The body of transform's outer try block.
TransformBody(d, rf) ==
    IF d.absent
    THEN [exc  |-> Exc("AttributeError",
                       "'NoneType' object has no attribute 'columns'", "none"),
          df   |-> d,
          logs |-> <<>>]
    ELSE IF ~HasColumn(d, MCAP)
    THEN [exc  |-> Exc("ValueError",
                       "The input DataFrame is missing the 'Market cap (US$ billion)' column.",
                       "none"),
          df   |-> d,
          logs |-> <<>>]
    ELSE IF rf.load = "FileNotFoundError"
    THEN [exc  |-> Exc("FileNotFoundError", "Exchange rate file not found.", "none"),
          df   |-> d,
          logs |-> <<L("Exchange rate file not found: ", "./input/exchange_rate.csv")>>]
    ELSE IF rf.load = "KeyError"
    THEN [exc  |-> Exc("KeyError",
                       "The exchange rate file is missing the required 'Rate' column.",
                       "none"),
          df   |-> d,
          logs |-> <<L("The exchange rate file is missing the required 'Rate' column.", "")>>]
    ELSE IF rf.load # "ok"
    THEN [exc  |-> Exc(rf.load, "cannot read the exchange rate file", "none"),
          df   |-> d,
          logs |-> <<>>]
    ELSE LET r == AddColumns(d, rf.rates, 1) IN
         IF r.exc = NoExc
         THEN [r EXCEPT !.logs =
                   Append(@, L("Data transformation complete. Initiating Loading process.", ""))]
         ELSE r

\* raise RuntimeError(f"An error occurred during data transformation: {e}") from e
Reraised(e) == e
TransformationError(e) ==
    Exc("RuntimeError", "An error occurred during data transformation: " \o Str(e), e.type)

\* transform(df, csv_path): any exception of the body is logged and wrapped in
\* a RuntimeError whose cause is the original exception.
Transform(d, rf) ==
    LET r == TransformBody(d, rf) IN
    IF r.exc = NoExc
    THEN r
    ELSE [exc  |-> TransformationError(r.exc),
          df   |-> r.df,
          logs |-> Append(r.logs, L("Data transformation failed: ", Str(r.exc)))]

----------------------------------------------------------------------------
(* extract *)

\* table_attribs as __main__ passes it, and a text that differs from it.
Marker == "By market capitalization"
OtherText == "By total assets"

\* An element of the parsed page, in document order: its tag, its string, and
\* for a table whether it holds any text and the frame its cells parse to.
Element(tag, string, hasText, frame) ==
    [tag |-> tag, string |-> string, hasText |-> hasText, frame |-> frame]

\* Position of the first element after position i with the given tag (0: none).
FindNext(doc, i, tag) ==
    LET hits == {k \in DOMAIN doc : k > i /\ doc[k].tag = tag}
    IN  IF hits = {} THEN 0 ELSE CHOOSE k \in hits : \A m \in hits : k <= m

\* soup.find('span', string=table_attribs): the first span element whose
\* string is the marker (0: none).
FindSpanAnyTag(doc, marker) ==
    LET hits == {k \in DOMAIN doc : doc[k].tag # "table" /\ doc[k].string = marker}
    IN  IF hits = {} THEN 0 ELSE CHOOSE k \in hits : \A m \in hits : k <= m
FindSpan(doc, marker) ==
    LET hits == {k \in DOMAIN doc : doc[k].tag = "span" /\ doc[k].string = marker}
    IN  IF hits = {} THEN 0 ELSE CHOOSE k \in hits : \A m \in hits : k <= m

\* pd.read_html(StringIO(str(table)))[0]: ImportError when no parser library
\* can be loaded, ValueError ("No tables found ...") for a table without text.
ReadHtml(tbl, parser) ==
    IF parser # "ok" THEN [exc |-> Exc(parser, "parser library not found", "none"),
                           df  |-> NoneDF]
    ELSE IF ~tbl.hasText THEN [exc |-> Exc("ValueError", "No tables found matching pattern '.+'", "none"),
                               df  |-> NoneDF]
    ELSE [exc |-> NoExc, df |-> tbl.frame]

\* The try block of extract.  net is what requests.get / raise_for_status do.
ExtractBody(net, doc, marker, parser) ==
    IF net # "ok"
    THEN [exc |-> Exc(net, "request failed", "none"), df |-> NoneDF]
    ELSE LET span == FindSpan(doc, marker) IN
         IF span = 0
         THEN [exc |-> Exc("ValueError",
                           "Table with attributes '" \o marker
                               \o "' not found on the webpage.", "none"),
               df  |-> NoneDF]
         ELSE LET t == FindNext(doc, span, "table") IN
              IF t = 0
              THEN [exc |-> Exc("ValueError",
                                "No table found after the specified span.", "none"),
                    df  |-> NoneDF]
              ELSE ReadHtml(doc[t], parser)

\* requests.exceptions.RequestException and its subclasses.
RequestExceptions == {"ConnectionError", "HTTPError"}

\* extract(url, table_attribs): the except clauses, in their order.
Extract(net, doc, marker, parser) ==
    LET r == ExtractBody(net, doc, marker, parser) IN
    IF r.exc = NoExc
    THEN [exc  |-> NoExc,
          df   |-> r.df,
          logs |-> <<L("Data extraction complete. Initiating Transformation process", "")>>]
    ELSE IF r.exc.type \in RequestExceptions
    THEN [exc  |-> Exc("RuntimeError",
                       "Failed to fetch URL. Check your connection or the URL.",
                       r.exc.type),
          df   |-> NoneDF,
          logs |-> <<L("Network error: ", Str(r.exc))>>]
    ELSE IF r.exc.type = "ValueError"
    THEN [exc  |-> r.exc,
          df   |-> NoneDF,
          logs |-> <<L("Data extraction error: ", Str(r.exc))>>]
    ELSE [exc  |-> Exc("RuntimeError",
                       "An unexpected error occurred during data extraction.",
                       r.exc.type),
          df   |-> NoneDF,
          logs |-> <<L("Unexpected error during extraction: ", Str(r.exc))>>]

----------------------------------------------------------------------------
(* load_to_csv *)

NoFile == [exists |-> FALSE, lines |-> <<>>]

\* df.to_csv(path, index=False): the header line, then one line per row.
ToCsv(d) ==
    [exists |-> TRUE,
     lines  |-> <<d.cols>> \o
                [i \in 1..NRows(d) |-> [j \in DOMAIN d.cols |-> d.data[j][i]]]]

\* io is what the file system does: "ok", "IOError_open" (the directory or
\* the file cannot be created), "IOError_write" (the write fails after the
\* file was opened for writing) or another exception.
LoadToCsv(d, f, io) ==
    IF NoneOrEmpty(d)
    THEN [exc  |-> Exc("ValueError", "The provided DataFrame is empty or None.", "none"),
          file |-> f,
          logs |-> <<L("Data saving error: ", "The provided DataFrame is empty or None.")>>]
    ELSE IF io = "ok"
    THEN [exc  |-> NoExc,
          file |-> ToCsv(d),
          logs |-> <<L("Data successfully saved to ./output/Largest_banks_data.csv", "")>>]
    ELSE IF io \in {"IOError_open", "IOError_write"}
    THEN [exc  |-> Exc("RuntimeError",
                       "Failed to save CSV. Check file permissions or disk space.",
                       "IOError"),
          file |-> IF io = "IOError_open" THEN f ELSE [exists |-> TRUE, lines |-> <<>>],
          logs |-> <<L("File writing error: ", io)>>]
    ELSE [exc  |-> Exc("RuntimeError",
                       "An unexpected error occurred while saving CSV: " \o io, io),
          file |-> f,
          logs |-> <<L("Unexpected error: ", io)>>]

----------------------------------------------------------------------------
(* load_to_db *)

NoTable == [exists |-> FALSE, cols |-> <<>>, rows |-> <<>>]

\* The SQL type to_sql gives a column: REAL for numbers, TEXT otherwise.
SqlType(col) == IF \A k \in DOMAIN col : col[k].t = "num" THEN "REAL" ELSE "TEXT"

Schema(d) == [j \in DOMAIN d.cols |-> <<d.cols[j], SqlType(d.data[j])>>]
RowsOf(d) == [i \in 1..NRows(d) |-> [j \in DOMAIN d.cols |-> d.data[j][i]]]

\* df.to_sql(table_name, con, if_exists='replace', index=False): the table is
\* dropped if it exists, created with the frame's schema, and filled.
ToSqlAppend(d, tbl) ==
    IF tbl.exists
    THEN [tbl EXCEPT !.rows = @ \o RowsOf(d)]
    ELSE [exists |-> TRUE, cols |-> Schema(d), rows |-> RowsOf(d)]
ToSql(d, tbl) ==
    [exists |-> TRUE, cols |-> Schema(d), rows |-> RowsOf(d)]

\* What a failing to_sql leaves: nothing done, the table dropped, or the
\* table created and the insert rolled back.
AfterFailedToSql(d, tbl, io) ==
    IF io = "Error_drop" THEN tbl
    ELSE IF io = "Error_create" THEN NoTable
    ELSE [exists |-> TRUE, cols |-> Schema(d), rows |-> <<>>]

LoadToDbFaults == {"Error_drop", "Error_create", "Error_insert"}

LoadToDb(d, tbl, io) ==
    IF NoneOrEmpty(d)
    THEN [exc   |-> Exc("ValueError", "The provided DataFrame is empty or None.", "none"),
          table |-> tbl,
          logs  |-> <<L("Data loading error: ", "The provided DataFrame is empty or None.")>>]
    ELSE IF io = "ok"
    THEN [exc   |-> NoExc,
          table |-> ToSql(d, tbl),
          logs  |-> <<L("Data successfully loaded to the database table 'Largest_banks'. Executing queries.", "")>>]
    ELSE [exc   |-> Exc("RuntimeError",
                        "An unexpected error occurred while saving data to the table 'Largest_banks': " \o io,
                        "OperationalError"),
          table |-> AfterFailedToSql(d, tbl, io),
          logs  |-> <<L("Unexpected error while loading data to the database: ", io)>>]

----------------------------------------------------------------------------
(* run_query *)

Query1 == "SELECT * FROM Largest_banks"
Query2 == "SELECT AVG(MC_GBP_Billion) FROM Largest_banks"
Query3 == "SELECT \"Bank name\" FROM Largest_banks LIMIT 5"
Malformed == "SELEC * FROM Largest_banks"
NotAString == "None"

Limit == 5

TableColumns(tbl) == {tbl.cols[j][1] : j \in DOMAIN tbl.cols}
TableColIndex(tbl, name) == CHOOSE j \in DOMAIN tbl.cols : tbl.cols[j][1] = name

RECURSIVE SumCells(_, _, _)
SumCells(rows, j, i) ==
    IF i > Len(rows) THEN 0
    ELSE (IF rows[i][j].t = "num" THEN rows[i][j].v ELSE 0) + SumCells(rows, j, i + 1)

Null == [t |-> "null", v |-> 0]

Min(a, b) == IF a < b THEN a ELSE b

\* cursor.execute(query) followed by cursor.fetchall() on the table: the rows,
\* or the exception sqlite3 raises.  dqs tells whether the SQLite build reads
\* a double-quoted name that is no column as a string literal.
Execute(query, tbl, fault, dqs) ==
    IF query = NotAString
    THEN [exc |-> Exc("TypeError", "execute() argument 1 must be str, not None", "none"),
          rows |-> <<>>]
    ELSE IF fault # "ok"
    THEN [exc |-> Exc(fault, "database is locked", "none"), rows |-> <<>>]
    ELSE IF query = Malformed
    THEN [exc |-> Exc("OperationalError", "near \"SELEC\": syntax error", "none"),
          rows |-> <<>>]
    ELSE IF ~tbl.exists
    THEN [exc |-> Exc("OperationalError", "no such table: Largest_banks", "none"),
          rows |-> <<>>]
    ELSE IF query = Query1
    THEN [exc |-> NoExc, rows |-> tbl.rows]
    ELSE IF query = Query2
    THEN IF "MC_GBP_Billion" \notin TableColumns(tbl)
         THEN [exc |-> Exc("OperationalError", "no such column: MC_GBP_Billion", "none"),
               rows |-> <<>>]
         ELSE LET j == TableColIndex(tbl, "MC_GBP_Billion") IN
              [exc  |-> NoExc,
               rows |-> << <<IF Len(tbl.rows) = 0 THEN Null
                             ELSE Num(SumCells(tbl.rows, j, 1) \div Len(tbl.rows))>> >>]
    ELSE IF "Bank name" \in TableColumns(tbl)
    THEN LET j == TableColIndex(tbl, "Bank name") IN
         [exc  |-> NoExc,
          rows |-> [i \in 1..Min(Limit, Len(tbl.rows)) |-> <<tbl.rows[i][j]>>]]
    ELSE IF dqs
    THEN [exc  |-> NoExc,
          rows |-> [i \in 1..Min(Limit, Len(tbl.rows)) |-> <<Txt(0)>>]]
    ELSE [exc |-> Exc("OperationalError", "no such column: \"Bank name\"", "none"),
          rows |-> <<>>]

\* sqlite3.Error and its subclasses (sql_connection.Error).
SqliteErrors == {"OperationalError", "ProgrammingError", "DatabaseError"}

\* The finally clause of run_query: the cursor, when one was created, is
\* closed; closes counts the calls of close() on it.
NewCursor == [open |-> TRUE, closes |-> 0]
Close(c) == [open |-> FALSE, closes |-> c.closes + 1]

FinallyOnlyOnReturn(created, exc) ==
    IF created /\ exc = NoExc THEN <<Close(NewCursor)>>
    ELSE IF created THEN <<NewCursor>> ELSE <<>>
Finally(created, exc) == IF created THEN <<Close(NewCursor)>> ELSE <<>>

\* run_query(query_statement, sql_connection).  env = [cursor, fault, dqs]:
\* cursor is what sql_connection.cursor() does, fault what the database does
\* to the statement.  The result lists the cursors the call created.
RunQuery(query, tbl, env) ==
    IF env.cursor # "ok"
    THEN [exc     |-> Exc("RuntimeError",
                          "An error occurred while executing the query: " \o env.cursor,
                          env.cursor),
          rows    |-> <<>>,
          logs    |-> <<L("Database error: ", env.cursor)>>,
          cursors |-> Finally(FALSE, Exc(env.cursor, "", "none"))]
    ELSE LET r == Execute(query, tbl, env.fault, env.dqs) IN
         IF r.exc = NoExc
         THEN [exc     |-> NoExc,
               rows    |-> r.rows,
               logs    |-> <<L("Query executed successfully. Process complete.", "")>>,
               cursors |-> Finally(TRUE, r.exc)]
         ELSE IF r.exc.type \in SqliteErrors
         THEN [exc     |-> Exc("RuntimeError",
                               "An error occurred while executing the query: " \o Str(r.exc),
                               r.exc.type),
               rows    |-> <<>>,
               logs    |-> <<L("Database error: ", Str(r.exc))>>,
               cursors |-> Finally(TRUE, r.exc)]
         ELSE [exc     |-> Exc("RuntimeError",
                               "An unexpected error occurred while executing the query: "
                                   \o Str(r.exc),
                               r.exc.type),
               rows    |-> <<>>,
               logs    |-> <<L("Unexpected error during query execution: ", Str(r.exc))>>,
               cursors |-> Finally(TRUE, r.exc)]

----------------------------------------------------------------------------
(* Inputs: the frames, rate files and pages the functions are applied to *)

Currencies == Range(currencies)

SeqsUpTo(S, n) == UNION {[1..k -> S] : k \in 0..n}

McapValues == {101, 150, 250}

NumCol(m) == [k \in DOMAIN m |-> Num(m[k])]
TxtCol(n) == [k \in 1..n |-> Txt(k)]
ConstCol(n, v) == [k \in 1..n |-> Num(v)]

\* Frames with and without the market-cap column, with a numeric and with a
\* text market-cap column, with a derived column already present, and None.
DatasetInputs ==
    {Frame(<<"Bank name", MCAP>>, <<TxtCol(Len(m)), NumCol(m)>>) :
        m \in SeqsUpTo(McapValues, MaxRows)}
    \cup {Frame(<<MCAP, "MC_EUR_Billion">>, <<NumCol(m), ConstCol(Len(m), 7)>>) :
        m \in SeqsUpTo(McapValues, MaxRows)}
    \cup {Frame(<<"Bank name">>, <<TxtCol(n)>>) : n \in 0..MaxRows}
    \cup {Frame(<<"Bank name", MCAP>>, <<TxtCol(n), TxtCol(n)>>) : n \in 0..MaxRows}
    \cup {NoneDF}

RateChoices(c) ==
    IF c = "GBP" THEN {79, 50}
    ELSE IF c = "EUR" THEN {93}
    ELSE IF c = "INR" THEN {8250}
    ELSE {27800}

RateTables ==
    UNION {{f \in [S -> {50, 79, 93, 8250, 27800}] : \A c \in S : f[c] \in RateChoices(c)} :
              S \in SUBSET Currencies}

NoRates == [c \in {} |-> 0]

\* "FileNotFoundError": no file; "KeyError": no Rate column; "PermissionError":
\* any other failure of read_csv.
RateFiles ==
    {[load |-> "ok", rates |-> f] : f \in RateTables}
    \cup {[load |-> l, rates |-> NoRates] :
            l \in {"FileNotFoundError", "KeyError", "PermissionError"}}

FullRates == [c \in Currencies |-> CHOOSE r \in RateChoices(c) : \A q \in RateChoices(c) : r >= q]

\* What the tables of a page parse to.
FrameOk == Frame(<<"Bank name", MCAP>>, <<TxtCol(2), NumCol(<<150, 101>>)>>)
FrameOne == Frame(<<"Rank", MCAP>>, <<TxtCol(1), NumCol(<<250>>)>>)
FrameZero == Frame(<<"Bank name", MCAP>>, <<TxtCol(0), TxtCol(0)>>)
FrameNoMcap == Frame(<<"Bank name">>, <<TxtCol(1)>>)
FrameText == Frame(<<"Bank name", MCAP>>, <<TxtCol(1), TxtCol(1)>>)

PageFrames == {FrameOk, FrameOne, FrameZero, FrameNoMcap, FrameText}

Elements ==
    {Element("span", t, FALSE, NoneDF) : t \in {Marker, OtherText}}
    \cup {Element("h2", Marker, FALSE, NoneDF)}
    \cup {Element("table", "", TRUE, f) : f \in PageFrames}
    \cup {Element("table", "", FALSE, NoneDF)}

Docs == SeqsUpTo(Elements, MaxDocLen)

NetOutcomes == {"ok"} \cup RequestExceptions
ParserOutcomes == {"ok", "ImportError"}

NoCall == [op |-> "none"]

IdleMain ==
    /\ pc = "Idle"
    /\ trace = <<>>
    /\ log = <<>>
    /\ conn = [open |-> FALSE, opens |-> 0, closes |-> 0, commits |-> 0, rollbacks |-> 0]

----------------------------------------------------------------------------
(* transform applied to a frame the caller holds, up to MaxCalls times *)

InitTransform ==
    /\ IdleMain
    /\ df \in DatasetInputs
    /\ table = NoTable
    /\ file = NoFile
    /\ cursors = <<>>
    /\ last = NoCall
    /\ calls = 0

CallTransform ==
    /\ calls < MaxCalls
    /\ \E rf \in RateFiles :
          LET r == Transform(df, rf) IN
          /\ df' = r.df
          /\ last' = [op |-> "transform", df |-> df, rf |-> rf,
                      exc |-> r.exc, logs |-> r.logs]
    /\ calls' = calls + 1
    /\ UNCHANGED <<pc, trace, log, conn, table, file, cursors>>

NextTransform == CallTransform

SpecTransform == InitTransform /\ [][NextTransform]_vars

----------------------------------------------------------------------------
(* Properties of transform, stated on the last call (last) and on the frame
   the caller holds afterwards (df) *)

Ord == [c \in Currencies |->
           IF c = "GBP" THEN 1 ELSE IF c = "EUR" THEN 2 ELSE IF c = "INR" THEN 3 ELSE 4]

NameOf == [c \in Currencies |->
           IF c = "GBP" THEN "MC_GBP_Billion"
           ELSE IF c = "EUR" THEN "MC_EUR_Billion"
           ELSE IF c = "INR" THEN "MC_INR_Billion" ELSE "MC_PKR_Billion"]

\* v (hundredths) is p (ten-thousandths) rounded to two decimals.
IsRounded(p, v) ==
    /\ 100 * v - p <= 50
    /\ p - 100 * v <= 50
    /\ (100 * v - p = 50 \/ p - 100 * v = 50) => v % 2 = 0

\* col holds, row by row, the market cap of frame d times rate, rounded.
IsConversion(col, d, rate) ==
    /\ Len(col) = NRows(d)
    /\ \A k \in 1..NRows(d) :
          /\ col[k].t = "num"
          /\ IsRounded(Column(d, MCAP)[k].v * rate, col[k].v)

TransformCalled == last.op = "transform" /\ ~last.df.absent

CompleteRates ==
    /\ last.rf.load = "ok"
    /\ {"GBP", "EUR", "INR", "PKR"} \subseteq DOMAIN last.rf.rates

NumericMcap == \A k \in 1..NRows(last.df) : Column(last.df, MCAP)[k].t = "num"

NoDerivedBefore == \A c \in Currencies : ~HasColumn(last.df, NameOf[c])

FourColumnsAdded ==
    /\ last.exc = NoExc
    /\ df.cols = last.df.cols
                   \o <<"MC_GBP_Billion", "MC_EUR_Billion", "MC_INR_Billion", "MC_PKR_Billion">>
    /\ NRows(df) = NRows(last.df)
    /\ \A j \in DOMAIN last.df.cols : df.data[j] = last.df.data[j]
    /\ \A c \in Currencies :
          IsConversion(df.data[Len(last.df.cols) + Ord[c]], last.df, last.rf.rates[c])

\* C3 as claimed: for every frame with a market-cap column and every rate
\* table holding the four currencies, transform succeeds and appends exactly
\* the four derived columns, in order, each value round(market cap * rate, 2),
\* leaving the row count and the existing columns as they were.
C3_AsClaimed ==
    (TransformCalled /\ HasColumn(last.df, MCAP) /\ CompleteRates) => FourColumnsAdded

\* C3 (amended): the same, for frames whose market-cap column holds only
\* numbers and that hold none of the four derived columns beforehand.
C3_FourColumns ==
    (TransformCalled /\ HasColumn(last.df, MCAP) /\ CompleteRates
        /\ NumericMcap /\ NoDerivedBefore) => FourColumnsAdded

\* A successful call on two or more rows, one of whose products is a tie.
C3_Witness ==
    /\ TransformCalled /\ HasColumn(last.df, MCAP) /\ CompleteRates
    /\ NumericMcap /\ NoDerivedBefore
    /\ NRows(last.df) >= 2
    /\ Len(df.cols) = Len(last.df.cols) + 4
    /\ \E k \in 1..NRows(last.df) :
          (Column(last.df, MCAP)[k].v * last.rf.rates["GBP"]) % 100 = 50

MissingCurrencies == {c \in Currencies : c \notin DOMAIN last.rf.rates}

FirstMissing == CHOOSE c \in MissingCurrencies : \A x \in MissingCurrencies : Ord[c] <= Ord[x]

WrappedMissingRate(c) ==
    "An error occurred during data transformation: 'Exchange rate for " \o c
        \o " is missing in the exchange rate file.'"

SchemaFailure ==
    /\ last.exc.type = "RuntimeError"
    /\ last.exc.cause = "ValueError"
    /\ last.logs = <<L("Data transformation failed: ",
                       "The input DataFrame is missing the 'Market cap (US$ billion)' column.")>>

MissingRateFailure ==
    /\ last.exc.type = "RuntimeError"
    /\ last.exc.cause = "KeyError"
    /\ last.exc.msg = WrappedMissingRate(FirstMissing)
    /\ last.logs =
         <<L("Exchange rate for {currency} not found in the CSV file.", FirstMissing),
           L("Data transformation failed: ",
             "'Exchange rate for " \o FirstMissing
                 \o " is missing in the exchange rate file.'")>>

RateCase ==
    /\ TransformCalled /\ HasColumn(last.df, MCAP)
    /\ last.rf.load = "ok" /\ MissingCurrencies # {}

FailedOnRateOf(c) == last.exc.msg = WrappedMissingRate(c)

FailedBeforeLoop ==
    /\ last.exc # NoExc
    /\ \/ ~HasColumn(last.df, MCAP)
       \/ last.rf.load # "ok"

\* C10 as claimed: after a failure on the rate of C the frame holds exactly
\* the derived columns of the currencies before C and none for C or a later
\* one; after a failure of the column check or of the rate load it is as
\* it was.
C10_AsClaimed ==
    TransformCalled =>
      /\ FailedBeforeLoop => df = last.df
      /\ \A c \in Currencies :
            FailedOnRateOf(c) =>
               \A x \in Currencies : HasColumn(df, NameOf[x]) <=> Ord[x] < Ord[c]

\* The frame after a failure on the rate of c: the columns of the currencies
\* before c hold the conversions (appended in order when new, overwritten in
\* place when present), and every other column is as it was.
PartialResult(c) ==
    LET before == last.df
        done   == {x \in Currencies : Ord[x] < Ord[c]}
        new    == {x \in done : ~HasColumn(before, NameOf[x])}
    IN  /\ \A x \in done :
              /\ HasColumn(df, NameOf[x])
              /\ IsConversion(Column(df, NameOf[x]), before, last.rf.rates[x])
        /\ \A x \in Currencies \ done :
              HasColumn(df, NameOf[x]) <=> HasColumn(before, NameOf[x])
        /\ Len(df.cols) = Len(before.cols) + Cardinality(new)
        /\ \A j \in DOMAIN before.cols :
              /\ df.cols[j] = before.cols[j]
              /\ (\A x \in done : before.cols[j] # NameOf[x]) => df.data[j] = before.data[j]
        /\ \A x, y \in new : Ord[x] < Ord[y] => ColIndex(df, NameOf[x]) < ColIndex(df, NameOf[y])

\* C10 (amended): transform changes the caller's frame in place and keeps the
\* change when it fails: after a failure on the rate of C the frame has gained
\* the derived columns of the currencies before C, and its columns for C and
\* the later currencies are as they were before the call (absent if absent);
\* after a failure of the column check or of the rate load it is as it was.
C10_PartialMutation ==
    TransformCalled =>
      /\ FailedBeforeLoop => df = last.df
      /\ \A c \in Currencies : FailedOnRateOf(c) => PartialResult(c)

\* A call that failed on INR and left the GBP and EUR columns in the frame.
C10_Witness ==
    /\ TransformCalled /\ FailedOnRateOf("INR")
    /\ NoDerivedBefore
    /\ NRows(last.df) >= 1
    /\ HasColumn(df, "MC_GBP_Billion") /\ HasColumn(df, "MC_EUR_Billion")
    /\ ~HasColumn(df, "MC_INR_Billion")

----------------------------------------------------------------------------
(* extract applied to a page *)

InitExtract ==
    /\ IdleMain
    /\ df = NoneDF
    /\ table = NoTable
    /\ file = NoFile
    /\ cursors = <<>>
    /\ last = NoCall
    /\ calls = 0

CallExtract ==
    /\ calls = 0
    /\ calls' = 1
    /\ \E net \in NetOutcomes, doc \in Docs, parser \in ParserOutcomes :
          LET r == Extract(net, doc, Marker, parser) IN
          last' = [op |-> "extract", net |-> net, doc |-> doc, marker |-> Marker,
                   parser |-> parser, exc |-> r.exc, df |-> r.df, logs |-> r.logs]
    /\ UNCHANGED <<pc, trace, log, df, conn, table, file, cursors>>

NextExtract == CallExtract

SpecExtract == InitExtract /\ [][NextExtract]_vars

\* The kinds of failure of extract, as the caller sees them.
IsNetworkError ==
    /\ last.exc.type = "RuntimeError"
    /\ last.exc.cause \in {"ConnectionError", "HTTPError"}
    /\ Len(last.logs) = 1 /\ last.logs[1].msg = "Network error: "

IsTableNotFoundError ==
    /\ last.exc.type = "ValueError"
    /\ Len(last.logs) = 1 /\ last.logs[1].msg = "Data extraction error: "

IsUnexpectedExtractionError ==
    /\ last.exc.type = "RuntimeError"
    /\ last.exc.cause \notin {"ConnectionError", "HTTPError"}
    /\ Len(last.logs) = 1 /\ last.logs[1].msg = "Unexpected error during extraction: "

\* i is the first element of the page, with one of the given tags, whose text
\* is the marker, and j the first table after it.
FirstMatch(i, tags) ==
    /\ last.doc[i].tag \in tags /\ last.doc[i].string = last.marker
    /\ \A k \in 1..(i - 1) :
          ~(last.doc[k].tag \in tags /\ last.doc[k].string = last.marker)

FirstTableAfter(i, j) ==
    /\ i < j /\ last.doc[j].tag = "table"
    /\ \A k \in (i + 1)..(j - 1) : last.doc[k].tag # "table"

Located(j, tags) == \E i \in DOMAIN last.doc : FirstMatch(i, tags) /\ FirstTableAfter(i, j)

ReturnsTable(j) ==
    /\ last.exc = NoExc
    /\ last.df = last.doc[j].frame
    /\ Len(last.logs) = 1

\* C5 as claimed: NetworkError when the fetch fails; otherwise
\* TableNotFoundError when no element's text is the marker or no table follows
\* the first such element; otherwise UnexpectedExtractionError when the table
\* cannot be parsed; otherwise the frame of the first table after the first
\* matching element.  Every failure is logged.
C5_AsClaimed ==
    last.op = "extract" =>
      LET tags == {"span", "h2"} IN
      IF last.net # "ok" THEN IsNetworkError
      ELSE IF \A j \in DOMAIN last.doc : ~Located(j, tags) THEN IsTableNotFoundError
      ELSE \A j \in DOMAIN last.doc :
              Located(j, tags) =>
                 IF last.parser # "ok" \/ ~last.doc[j].hasText
                 THEN IsUnexpectedExtractionError
                 ELSE ReturnsTable(j)

\* C5 (amended): NetworkError when the fetch fails; otherwise
\* TableNotFoundError when no span element's text is the marker or no table
\* follows the first such span; otherwise, for the first table after it,
\* UnexpectedExtractionError when the parser cannot be loaded, the same kind as
\* TableNotFoundError when the parser reports a value error (a table without
\* text), and else the frame parsed from that table.  Every failure is logged.
C5_Classification ==
    last.op = "extract" =>
      LET tags == {"span"} IN
      IF last.net # "ok" THEN IsNetworkError
      ELSE IF \A j \in DOMAIN last.doc : ~Located(j, tags) THEN IsTableNotFoundError
      ELSE \A j \in DOMAIN last.doc :
              Located(j, tags) =>
                 IF last.parser # "ok" THEN IsUnexpectedExtractionError
                 ELSE IF ~last.doc[j].hasText THEN IsTableNotFoundError
                 ELSE ReturnsTable(j)

\* A page with two tables after the marker span: the first one is returned.
C5_Witness ==
    /\ last.op = "extract" /\ last.exc = NoExc
    /\ \E i, j, k \in DOMAIN last.doc :
          /\ FirstMatch(i, {"span"}) /\ FirstTableAfter(i, j)
          /\ j < k /\ last.doc[k].tag = "table" /\ last.doc[k].frame # last.doc[j].frame
          /\ last.df = last.doc[j].frame

----------------------------------------------------------------------------
(* load_to_csv and load_to_db applied to frames, on one file and one
   connection, up to MaxCalls times *)

SinkInputs == PageFrames \cup {NoneDF}

CsvOutcomes == {"ok", "IOError_open", "IOError_write", "MemoryError"}
DbOutcomes == {"ok"} \cup LoadToDbFaults

InitSink ==
    /\ IdleMain
    /\ df = NoneDF
    /\ table = NoTable
    /\ file = NoFile
    /\ cursors = <<>>
    /\ last = NoCall
    /\ calls = 0

CallLoadToCsv ==
    /\ calls < MaxCalls
    /\ \E d \in SinkInputs, io \in CsvOutcomes :
          LET r == LoadToCsv(d, file, io) IN
          /\ file' = r.file
          /\ last' = [op |-> "load_to_csv", df |-> d, io |-> io,
                      exc |-> r.exc, logs |-> r.logs]
    /\ calls' = calls + 1
    /\ UNCHANGED <<pc, trace, log, df, conn, table, cursors>>

CallLoadToDb ==
    /\ calls < MaxCalls
    /\ \E d \in SinkInputs, io \in DbOutcomes :
          LET r == LoadToDb(d, table, io) IN
          /\ table' = r.table
          /\ last' = [op |-> "load_to_db", df |-> d, io |-> io, before |-> table,
                      exc |-> r.exc, logs |-> r.logs]
    /\ calls' = calls + 1
    /\ UNCHANGED <<pc, trace, log, df, conn, file, cursors>>

NextSink == CallLoadToCsv \/ CallLoadToDb

SpecSink == InitSink /\ [][NextSink]_vars

\* The table holds the columns and the rows of frame d, and nothing else.
TableReflects(d) ==
    /\ table.exists
    /\ Len(table.cols) = Len(d.cols)
    /\ \A j \in DOMAIN d.cols : table.cols[j][1] = d.cols[j]
    /\ Len(table.rows) = NRows(d)
    /\ \A i \in 1..NRows(d) :
          /\ Len(table.rows[i]) = Len(d.cols)
          /\ \A j \in DOMAIN d.cols : table.rows[i][j] = d.data[j][i]

\* C8: after a successful load_to_db the table holds exactly the schema and
\* the rows of the frame of that call, whatever an earlier call had written.
C8_Replace ==
    (last.op = "load_to_db" /\ last.exc = NoExc) => TableReflects(last.df)

\* A second write, of a frame with other columns and rows than the first.
C8_Witness ==
    /\ last.op = "load_to_db" /\ last.exc = NoExc
    /\ last.before.exists
    /\ Len(last.before.rows) > 0
    /\ last.before.cols # table.cols
    /\ last.before.rows # table.rows

EmptyDatasetError(prefix) ==
    /\ last.exc = Exc("ValueError", "The provided DataFrame is empty or None.", "none")
    /\ last.logs = <<L(prefix, "The provided DataFrame is empty or None.")>>

\* C9: load_to_csv and load_to_db raise the ValueError of an empty or absent
\* frame, logged and not wrapped, and on a single-row frame they succeed
\* (when the file system or the database reports no failure), leaving the
\* file in place and the table answering a query.
C9_EmptyDataset ==
    /\ last.op = "load_to_csv" =>
          /\ (last.df.absent \/ NRows(last.df) = 0) => EmptyDatasetError("Data saving error: ")
          /\ (~last.df.absent /\ NRows(last.df) = 1 /\ last.io = "ok") =>
                (last.exc = NoExc /\ file.exists)
    /\ last.op = "load_to_db" =>
          /\ (last.df.absent \/ NRows(last.df) = 0) => EmptyDatasetError("Data loading error: ")
          /\ (~last.df.absent /\ NRows(last.df) = 1 /\ last.io = "ok") =>
                /\ last.exc = NoExc
                /\ table.exists
                /\ Len(table.rows) = 1

\* The zero-row frame was refused by load_to_db, the table left as it was.
C9_Witness ==
    /\ last.op = "load_to_db"
    /\ ~last.df.absent /\ NRows(last.df) = 0
    /\ last.exc.type = "ValueError"
    /\ table = last.before

----------------------------------------------------------------------------
(* run_query applied to statements on one connection, up to MaxCalls times *)

Queries == {Query1, Query2, Query3, Malformed, NotAString}

QueryEnvs ==
    [cursor : {"ok", "ProgrammingError"},
     fault  : {"ok", "OperationalError"},
     dqs    : BOOLEAN]

TransformedOk == Transform(FrameOk, [load |-> "ok", rates |-> FullRates]).df

StoredTables == {NoTable, ToSql(FrameOne, NoTable), ToSql(TransformedOk, NoTable)}

InitQuery ==
    /\ IdleMain
    /\ df = NoneDF
    /\ table \in StoredTables
    /\ file = NoFile
    /\ cursors = <<>>
    /\ last = NoCall
    /\ calls = 0

CallRunQuery ==
    /\ calls < MaxCalls
    /\ \E q \in Queries, env \in QueryEnvs :
          LET r == RunQuery(q, table, env) IN
          /\ cursors' = cursors \o r.cursors
          /\ last' = [op |-> "run_query", query |-> q, env |-> env,
                      exc |-> r.exc, rows |-> r.rows, logs |-> r.logs]
    /\ calls' = calls + 1
    /\ UNCHANGED <<pc, trace, log, df, conn, table, file>>

NextQuery == CallRunQuery

SpecQuery == InitQuery /\ [][NextQuery]_vars

\* C7: after any sequence of run_query calls, whatever each returned or
\* raised, every cursor run_query created is closed and was closed once; a
\* call whose cursor() succeeded created one.
C7_CursorClosed ==
    /\ \A k \in DOMAIN cursors : ~cursors[k].open /\ cursors[k].closes = 1
    /\ (last.op = "run_query" /\ last.env.cursor = "ok") => Len(cursors) >= 1
    /\ Len(cursors) <= calls

\* Two calls in a row, the last with malformed query text: both cursors closed.
C7_Witness ==
    /\ last.op = "run_query" /\ last.query = Malformed
    /\ last.exc.cause = "OperationalError"
    /\ Len(cursors) = 2
    /\ \A k \in DOMAIN cursors : ~cursors[k].open

----------------------------------------------------------------------------
(* __main__: one run of the pipeline *)

StageOrder == <<"Extract", "Transform", "SinkCSV", "SinkDB", "Query1", "Query2", "Query3">>

StageIndex(stage) == CHOOSE i \in DOMAIN StageOrder : StageOrder[i] = stage

Successor(stage) ==
    IF StageIndex(stage) = Len(StageOrder) THEN "Done"
    ELSE StageOrder[StageIndex(stage) + 1]

\* Each stage's handler re-raises, so a failure ends the run; a stage that
\* returned is followed by the next one.
NextStageIgnoringFailure(stage, exc) == Successor(stage)
NextStage(stage, exc) == IF exc = NoExc THEN Successor(stage) ELSE "Failed"

\* The RuntimeError a failed stage raises to the outermost handler.
Halted(stage) ==
    IF stage = "Extract" THEN "ETL process halted during extraction."
    ELSE IF stage = "Transform" THEN "ETL process halted during transformation."
    ELSE IF stage = "SinkCSV" THEN "ETL process halted during CSV load."
    ELSE "ETL process halted during database operations."

\* What the handlers log for exception e of a stage, innermost handler first:
\* the stage's own handler (for a query also the handler of the database
\* block, which the re-raised exception passes), then the outermost handler.
HandlerLogsPipelineOnly(stage, e) == <<L("ETL process failed: ", Halted(stage))>>
HandlerLogs(stage, e) ==
    (IF stage = "Extract" THEN <<L("Extraction failed: ", Str(e))>>
     ELSE IF stage = "Transform" THEN <<L("Transformation failed: ", Str(e))>>
     ELSE IF stage = "SinkCSV" THEN <<L("Failed to save data to CSV: ", Str(e))>>
     ELSE IF stage = "SinkDB"
          THEN <<L("Database load or query execution failed: ", Str(e))>>
     ELSE <<L(IF stage = "Query1" THEN "Query 1 failed: "
              ELSE IF stage = "Query2" THEN "Query 2 failed: " ELSE "Query 3 failed: ",
              Str(e)),
            L("Database load or query execution failed: ", Str(e))>>)
    \o <<L("ETL process failed: ", Halted(stage))>>

\* sqlite3.connect(database_name)
Connect(c) == [c EXCEPT !.open = TRUE, !.opens = @ + 1]

\* Leaving "with sqlite3.connect(..) as conn": the connection's __exit__
\* commits after a normal exit and rolls back after an exception; it does not
\* close the connection.
WithExit(c, exc) ==
    IF exc = NoExc THEN [c EXCEPT !.commits = @ + 1]
    ELSE [c EXCEPT !.rollbacks = @ + 1]

\* What a stage leaves in pc, trace and log: the messages the called function
\* logged, then those of the handlers or, after the last stage, of the end.
Finish(stage, exc, logs) ==
    /\ pc' = NextStage(stage, exc)
    /\ trace' = Append(trace, [stage |-> stage, ok |-> exc = NoExc])
    /\ log' = log \o logs \o
              (IF exc # NoExc THEN HandlerLogs(stage, exc)
               ELSE IF Successor(stage) = "Done"
                    THEN <<L("ETL process completed successfully.", "")>>
               ELSE <<>>)

\* The database file and the CSV file an earlier run may have left.
Init ==
    /\ pc = "Init"
    /\ trace = <<>>
    /\ log = <<>>
    /\ df = NoneDF
    /\ conn = [open |-> FALSE, opens |-> 0, closes |-> 0, commits |-> 0, rollbacks |-> 0]
    /\ table \in {NoTable, ToSql(FrameOne, NoTable)}
    /\ file \in {NoFile, ToCsv(FrameOne)}
    /\ cursors = <<>>
    /\ last = NoCall
    /\ calls = 0

Start ==
    /\ pc = "Init"
    /\ pc' = "Extract"
    /\ log' = Append(log, L("Preliminaries complete. Initiating ETL process", ""))
    /\ UNCHANGED <<trace, df, conn, table, file, cursors, last, calls>>

StageExtract ==
    /\ pc = "Extract"
    /\ \E net \in NetOutcomes, doc \in Docs, parser \in ParserOutcomes :
          LET r == Extract(net, doc, Marker, parser) IN
          /\ df' = r.df
          /\ Finish("Extract", r.exc, r.logs)
    /\ UNCHANGED <<conn, table, file, cursors, last, calls>>

StageTransform ==
    /\ pc = "Transform"
    /\ \E rf \in RateFiles :
          LET r == Transform(df, rf) IN
          /\ df' = r.df
          /\ Finish("Transform", r.exc, r.logs)
    /\ UNCHANGED <<conn, table, file, cursors, last, calls>>

StageSinkCSV ==
    /\ pc = "SinkCSV"
    /\ \E io \in CsvOutcomes :
          LET r == LoadToCsv(df, file, io) IN
          /\ file' = r.file
          /\ Finish("SinkCSV", r.exc, r.logs)
    /\ UNCHANGED <<df, conn, table, cursors, last, calls>>

StageSinkDB ==
    /\ pc = "SinkDB"
    /\ \/ LET e == Exc("OperationalError", "unable to open database file", "none") IN
          /\ Finish("SinkDB", e, <<>>)
          /\ UNCHANGED <<conn, table>>
       \/ \E io \in DbOutcomes :
             LET r == LoadToDb(df, table, io) IN
             /\ table' = r.table
             /\ conn' = IF r.exc = NoExc THEN Connect(conn)
                        ELSE WithExit(Connect(conn), r.exc)
             /\ Finish("SinkDB", r.exc, r.logs)
    /\ UNCHANGED <<df, file, cursors, last, calls>>

StageQuery(stage, query) ==
    /\ pc = stage
    /\ \E env \in QueryEnvs :
          LET r == RunQuery(query, table, env) IN
          /\ cursors' = cursors \o r.cursors
          /\ conn' = IF r.exc = NoExc /\ Successor(stage) # "Done" THEN conn
                     ELSE WithExit(conn, r.exc)
          /\ Finish(stage, r.exc, r.logs)
    /\ UNCHANGED <<df, table, file, last, calls>>

Next ==
    \/ Start
    \/ StageExtract
    \/ StageTransform
    \/ StageSinkCSV
    \/ StageSinkDB
    \/ StageQuery("Query1", Query1)
    \/ StageQuery("Query2", Query2)
    \/ StageQuery("Query3", Query3)

Spec == Init /\ [][Next]_vars

----------------------------------------------------------------------------
(* Properties of a run *)

Sequential == <<"Extract", "Transform", "SinkCSV", "SinkDB", "Query1", "Query2", "Query3">>

\* C1: the stages run in the order Extract, Transform, SinkCSV, SinkDB,
\* Query1, Query2, Query3, each at most once and only after all earlier ones
\* succeeded; a failed stage is the last one executed and leaves the run in
\* Failed; Done is reached exactly when all seven succeeded.
C1_StageOrder ==
    /\ Len(trace) <= 7
    /\ \A i \in DOMAIN trace : trace[i].stage = Sequential[i]
    /\ \A i \in 1..(Len(trace) - 1) : trace[i].ok
    /\ pc = "Done" <=> (Len(trace) = 7 /\ \A i \in DOMAIN trace : trace[i].ok)
    /\ pc = "Failed" <=> (Len(trace) > 0 /\ ~trace[Len(trace)].ok)
    /\ pc = "Init" => trace = <<>>
    /\ pc \notin {"Init", "Done", "Failed"} => pc = Sequential[Len(trace) + 1]

\* A run that failed in Query2, after five stages had succeeded.
C1_Witness ==
    /\ pc = "Failed"
    /\ Len(trace) = 6
    /\ trace[6].stage = "Query2"

StageMessage(stage) ==
    IF stage = "Extract" THEN "Extraction failed: "
    ELSE IF stage = "Transform" THEN "Transformation failed: "
    ELSE IF stage = "SinkCSV" THEN "Failed to save data to CSV: "
    ELSE IF stage = "SinkDB" THEN "Database load or query execution failed: "
    ELSE IF stage = "Query1" THEN "Query 1 failed: "
    ELSE IF stage = "Query2" THEN "Query 2 failed: "
    ELSE "Query 3 failed: "

Entries(msg) == {i \in DOMAIN log : log[i].msg = msg}

\* C2: a run that failed has logged the failed stage's own message once, then
\* "ETL process failed: ..." once, and this is the last entry of the log; a
\* run that has not failed has logged no "ETL process failed: ...".
C2_LogOrder ==
    /\ pc # "Failed" => Entries("ETL process failed: ") = {}
    /\ pc = "Failed" =>
          LET failed == trace[Len(trace)].stage IN
          /\ Entries("ETL process failed: ") = {Len(log)}
          /\ Cardinality(Entries(StageMessage(failed))) = 1
          /\ \A i \in Entries(StageMessage(failed)) : i < Len(log)

\* A run that failed in Query3: "Query 3 failed", then the message of the
\* database block, then "ETL process failed".
C2_Witness ==
    /\ pc = "Failed"
    /\ trace[Len(trace)].stage = "Query3"
    /\ log[Len(log) - 2].msg = "Query 3 failed: "
    /\ log[Len(log)].msg = "ETL process failed: "

\* C6 as claimed: a run that opened the database connection opened it once,
\* and when the run has ended the connection has been released once and is
\* no longer open.
C6_AsClaimed ==
    /\ conn.opens <= 1
    /\ (pc \in {"Done", "Failed"} /\ conn.opens = 1) =>
          (~conn.open /\ conn.closes = 1)

====
